---- MODULE Spec2Model ----
(***************************************************************************)
(* Model of the archive-model hub scripts:                                 *)
(*   scripts/pulse_archive.py      (fetch, normalise, de-duplicate, write, *)
(*                                  optionally push, per target column)    *)
(*   scripts/pull_seeds_to_hub.py  (seed harvest, last writer wins)        *)
(*                                                                         *)
(* Python objects are modelled as nodes [kind, val]:                       *)
(*   kind = "map"    : a dict; val is a function from field names to       *)
(*                     scalar values (dict equality ignores field order)   *)
(*   kind = "scalar" : a YAML scalar; val is a tagged value [t, v]         *)
(* Scalar values carry their Python type in the tag t: "str", "int",       *)
(* "null" (None) and "date" (datetime.date, which yaml.safe_load yields    *)
(* for a YAML timestamp and json.dumps cannot serialise).                  *)
(***************************************************************************)
EXTENDS Integers, Sequences, FiniteSets, TLC

VARIABLES
    dd_pc,      \* dedupe harness: "start", "once", "twice"
    dd_in,      \* dedupe harness: the input sequence handed to dedupe_records
    dd_out,     \* dedupe harness: outcome of dedupe_records(dd_in)
    dd_out2,    \* dedupe harness: outcome of dedupe_records(dd_out.out)
    nz_pc,      \* normaliser harness: "start", "done"
    nz_resp,    \* normaliser harness: the HTTP response fetch_yaml receives
    nz_out,     \* normaliser harness: outcome of fetch_yaml
    env,        \* pulse: the environment variables main reads (raw strings)
    nT,         \* pulse: number of target columns parse_excel returns
    run,        \* pulse: which invocation of the script this is (1, 2, ...)
    pc,         \* pulse: where main is
    rc,         \* pulse: exit status of the run: -1 while running, 0, 1
    ti,         \* pulse: index of the target column being processed
    hub,        \* pulse: hub tree URL of the current target
    nS,         \* pulse: number of source cells of the current target
    si,         \* pulse: index of the source cell being processed
    merged,     \* pulse: the list "merged" of main
    files,      \* pulse: local file system: path -> [exists, rows]
    writes,     \* pulse: path -> number of physical writes of the file
    pushes,     \* pulse: the list "pushes" of main
    hist,       \* pulse: history of the run (ghost), see HistStart
    hv_pc,      \* harvest: where pull_seeds_to_hub.main is
    hv_nM,      \* harvest: number of modules in the registry
    hv_mi,      \* harvest: index of the module being processed
    hv_sd,      \* harvest: index of the seed being pulled
    hv_files,   \* harvest: <out-dir>/<seed> -> [exists, text]
    hv_before,  \* harvest: hv_files as the run found it (ghost)
    hv_log      \* harvest: the fetches made so far, in order (ghost)

ddVars == <<dd_pc, dd_in, dd_out, dd_out2>>

nzVars == <<nz_pc, nz_resp, nz_out>>

paVars == <<env, nT, run, pc, rc, ti, hub, nS, si, merged, files, writes,
            pushes, hist>>

hvVars == <<hv_pc, hv_nM, hv_mi, hv_sd, hv_files, hv_before, hv_log>>

vars == <<ddVars, nzVars, paVars, hvVars>>

(***************************************************************************)
(* Bounds of the model                                                     *)
(***************************************************************************)
MaxLen == 3

MaxTargets == 2

MaxSources == 2

MaxRuns == 2

MaxModules == 2

(***************************************************************************)
(* Python values                                                           *)
(***************************************************************************)
Str(s) == [t |-> "str", v |-> s]

IntV(s) == [t |-> "int", v |-> s]

Null == [t |-> "null", v |-> "null"]

Date == [t |-> "date", v |-> "2024-01-01"]

Map(m) == [kind |-> "map", val |-> m]

Scal(x) == [kind |-> "scalar", val |-> x]

\* isinstance(x, dict)
IsDict(x) == x.kind = "map"

\* {"value": x}
WrapValue(x) == Map([value |-> x.val])

\* Field names of the model's records in sorted (code point) order, the order
\* json.dumps(..., sort_keys=True) emits them in.
FieldOrder == <<"id", "key", "label", "value">>

\* json.dumps of one scalar: a string is quoted, an int and None are bare
\* tokens, a date raises TypeError.
JsonScalar(x) ==
    CASE x.t = "str"  -> [raised |-> FALSE, text |-> <<"\"", x.v, "\"">>]
      [] x.t = "int"  -> [raised |-> FALSE, text |-> <<x.v>>]
      [] x.t = "null" -> [raised |-> FALSE, text |-> <<"null">>]
      [] OTHER        -> [raised |-> TRUE,  text |-> <<>>]

RECURSIVE JsonFields(_, _)
JsonFields(m, i) ==
    IF i > Len(FieldOrder) THEN <<>>
    ELSE IF FieldOrder[i] \in DOMAIN m
         THEN <<  <<FieldOrder[i], JsonScalar(m[FieldOrder[i]]).text>>  >>
              \o JsonFields(m, i + 1)
         ELSE JsonFields(m, i + 1)

\* json.dumps(rec, sort_keys=True, ensure_ascii=False) of a dict node
JsonDumps(rec) ==
    IF \E f \in DOMAIN rec.val : JsonScalar(rec.val[f]).raised
    THEN [raised |-> TRUE, blob |-> <<>>]
    ELSE [raised |-> FALSE, blob |-> JsonFields(rec.val, 1)]

(***************************************************************************)
(* dedupe_records                                                          *)
(***************************************************************************)
\* "key" in rec and isinstance(rec["key"], str) and rec["key"]
HasKey(rec) ==
    /\ "key" \in DOMAIN rec.val
    /\ rec.val["key"].t = "str"
    /\ rec.val["key"].v # ""

DedupeStart == [raised |-> FALSE, seen_key |-> {}, seen_blob |-> {}, out |-> <<>>]

\* Faulty variant: a duplicate key is toggled out of seen_key instead of staying in it.
DedupeStep_toggle(acc, item) ==
    LET rec == IF IsDict(item) THEN item ELSE WrapValue(item) IN
    IF acc.raised THEN acc
    ELSE IF HasKey(rec)
    THEN IF rec.val["key"].v \in acc.seen_key
         THEN [acc EXCEPT !.seen_key = @ \ {rec.val["key"].v}]
         ELSE [acc EXCEPT !.seen_key = @ \cup {rec.val["key"].v},
                          !.out = Append(@, rec)]
    ELSE LET j == JsonDumps(rec) IN
         IF j.raised THEN [acc EXCEPT !.raised = TRUE]
         ELSE IF j.blob \in acc.seen_blob THEN acc
         ELSE [acc EXCEPT !.seen_blob = @ \cup {j.blob},
                          !.out = Append(@, rec)]

\* Faulty variant: the last record carrying a key replaces the one kept before.
DedupeStep_lastwins(acc, item) ==
    LET rec == IF IsDict(item) THEN item ELSE WrapValue(item) IN
    IF acc.raised THEN acc
    ELSE IF HasKey(rec)
    THEN IF rec.val["key"].v \in acc.seen_key
         THEN [acc EXCEPT !.out =
                  [i \in DOMAIN @ |->
                      IF HasKey(@[i]) /\ @[i].val["key"].v = rec.val["key"].v
                      THEN rec ELSE @[i]]]
         ELSE [acc EXCEPT !.seen_key = @ \cup {rec.val["key"].v},
                          !.out = Append(@, rec)]
    ELSE LET j == JsonDumps(rec) IN
         IF j.raised THEN [acc EXCEPT !.raised = TRUE]
         ELSE IF j.blob \in acc.seen_blob THEN acc
         ELSE [acc EXCEPT !.seen_blob = @ \cup {j.blob},
                          !.out = Append(@, rec)]

\* Faulty variant: a record without a usable key falls back to its id as the key.
DedupeStep_idkey(acc, item) ==
    LET rec == IF IsDict(item) THEN item ELSE WrapValue(item)
        hasId == /\ "id" \in DOMAIN rec.val
                 /\ rec.val["id"].t = "str"
                 /\ rec.val["id"].v # ""
        k == IF HasKey(rec) THEN rec.val["key"].v ELSE rec.val["id"].v
    IN
    IF acc.raised THEN acc
    ELSE IF HasKey(rec) \/ hasId
    THEN IF k \in acc.seen_key THEN acc
         ELSE [acc EXCEPT !.seen_key = @ \cup {k}, !.out = Append(@, rec)]
    ELSE LET j == JsonDumps(rec) IN
         IF j.raised THEN [acc EXCEPT !.raised = TRUE]
         ELSE IF j.blob \in acc.seen_blob THEN acc
         ELSE [acc EXCEPT !.seen_blob = @ \cup {j.blob},
                          !.out = Append(@, rec)]

\* One iteration of the loop of dedupe_records.  acc.raised records that
\* json.dumps raised TypeError, which ends the call.
DedupeStep(acc, item) ==
    LET rec == IF IsDict(item) THEN item ELSE WrapValue(item) IN
    IF acc.raised THEN acc
    ELSE IF HasKey(rec)
    THEN IF rec.val["key"].v \in acc.seen_key THEN acc
         ELSE [acc EXCEPT !.seen_key = @ \cup {rec.val["key"].v},
                          !.out = Append(@, rec)]
    ELSE LET j == JsonDumps(rec) IN
         IF j.raised THEN [acc EXCEPT !.raised = TRUE]
         ELSE IF j.blob \in acc.seen_blob THEN acc
         ELSE [acc EXCEPT !.seen_blob = @ \cup {j.blob},
                          !.out = Append(@, rec)]

RECURSIVE DedupeLoop(_, _, _)
DedupeLoop(acc, records, i) ==
    IF i > Len(records) THEN acc
    ELSE DedupeLoop(DedupeStep(acc, records[i]), records, i + 1)

\* dedupe_records(records): the list returned, or raised = TRUE
dedupe_records(records) ==
    LET acc == DedupeLoop(DedupeStart, records, 1) IN
    [raised |-> acc.raised, out |-> IF acc.raised THEN <<>> ELSE acc.out]

(***************************************************************************)
(* Harness for dedupe_records: the inputs                                  *)
(***************************************************************************)
R1 == Map([key |-> Str("a"), label |-> Str("x")])

R2 == Map([key |-> Str("a"), label |-> Str("y")])

R3 == Map([key |-> Str("b"), label |-> Str("x")])

I1 == Map([id |-> Str("a"), label |-> Str("x")])

I2 == Map([id |-> Str("a"), label |-> Str("y")])

EmptyKey == Map([key |-> Str(""), label |-> Str("x")])

IntKey == Map([key |-> IntV("1"), label |-> Str("x")])

Dated == Map([label |-> Date])

Bare == Scal(Str("x"))

Wrapped == Map([value |-> Str("x")])

DedupeItems ==
    {R1, R2, R3, I1, I2, EmptyKey, IntKey, Dated, Bare, Wrapped}

SeqsUpTo(S, n) == UNION {[1..k -> S] : k \in 0..n}

DedupeInit ==
    /\ dd_pc = "start"
    /\ dd_in \in SeqsUpTo(DedupeItems, MaxLen)
    /\ dd_out = [raised |-> FALSE, out |-> <<>>]
    /\ dd_out2 = [raised |-> FALSE, out |-> <<>>]

DedupeIdle ==
    /\ dd_pc = "idle"
    /\ dd_in = <<>>
    /\ dd_out = [raised |-> FALSE, out |-> <<>>]
    /\ dd_out2 = [raised |-> FALSE, out |-> <<>>]

DedupeOnce ==
    /\ dd_pc = "start"
    /\ dd_out' = dedupe_records(dd_in)
    /\ dd_pc' = "once"
    /\ UNCHANGED <<dd_in, dd_out2, nzVars, paVars, hvVars>>

DedupeTwice ==
    /\ dd_pc = "once"
    /\ ~dd_out.raised
    /\ dd_out2' = dedupe_records(dd_out.out)
    /\ dd_pc' = "twice"
    /\ UNCHANGED <<dd_in, dd_out, nzVars, paVars, hvVars>>

DedupeNext == DedupeOnce \/ DedupeTwice

(***************************************************************************)
(* fetch_yaml: HTTP GET, YAML parse, normalisation to a list of dicts      *)
(*                                                                         *)
(* A response is [net, status, doc]: net = "error" when requests.get       *)
(* raises; doc is what yaml.safe_load makes of the body:                   *)
(*   kind = "blank"     the body is empty or whitespace (not parsed)       *)
(*   kind = "malformed" yaml.safe_load raises                              *)
(*   kind = "scalar"    a top-level scalar (Null: the document is null)    *)
(*   kind = "list"      val is the sequence of element nodes               *)
(*   kind = "dict"      val is the sequence of <<key, node>> entries in    *)
(*                      declared order                                     *)
(***************************************************************************)
Blank == [kind |-> "blank", val |-> <<>>]

Malformed == [kind |-> "malformed", val |-> <<>>]

ListDoc(items) == [kind |-> "list", val |-> items]

DictDoc(entries) == [kind |-> "dict", val |-> entries]

Response(n, st, d) == [net |-> n, status |-> st, doc |-> d]

\* Faulty variant: a non-dict element of a list is passed through unwrapped.
NormalizeItem_nowrap(x) == x

\* x if isinstance(x, dict) else {"value": x}
NormalizeItem(x) == IF IsDict(x) THEN x ELSE WrapValue(x)

\* Faulty variant: the mapping's key always overwrites the inner key field.
NormalizeEntry_override(k, v) ==
    IF IsDict(v)
    THEN Map([f \in DOMAIN v.val \cup {"key"} |->
                 IF f = "key" THEN Str(k) ELSE v.val[f]])
    ELSE Map([key |-> Str(k), value |-> v.val])

\* d = dict(v); d.setdefault("key", k)   or   {"key": k, "value": v}
NormalizeEntry(k, v) ==
    IF IsDict(v)
    THEN IF "key" \in DOMAIN v.val
         THEN v
         ELSE Map([f \in DOMAIN v.val \cup {"key"} |->
                      IF f = "key" THEN Str(k) ELSE v.val[f]])
    ELSE Map([key |-> Str(k), value |-> v.val])

\* the normalisation of the parsed data
Normalize(data) ==
    IF data.kind = "scalar" /\ data.val = Null THEN <<>>
    ELSE IF data.kind = "list"
    THEN [i \in DOMAIN data.val |-> NormalizeItem(data.val[i])]
    ELSE IF data.kind = "dict"
    THEN [i \in DOMAIN data.val |->
             NormalizeEntry(data.val[i][1], data.val[i][2])]
    ELSE <<WrapValue(data)>>

FetchRaised == [raised |-> TRUE, rows |-> <<>>]

\* fetch_yaml(url), given the response the URL answers with
fetch_yaml(resp) ==
    IF resp.net = "error" THEN FetchRaised
    ELSE IF resp.status # 200 THEN FetchRaised
    ELSE IF resp.doc.kind = "malformed" THEN FetchRaised
    ELSE [raised |-> FALSE,
          rows |-> Normalize(IF resp.doc.kind = "blank"
                             THEN ListDoc(<<>>) ELSE resp.doc)]

(***************************************************************************)
(* Harness for fetch_yaml: the responses                                   *)
(***************************************************************************)
ListItems ==
    {R1, I1, Bare, Scal(IntV("1")), Scal(Null)}

DictKeys == {"a", "b", "c"}

DictValues ==
    { Map([label |-> Str("x")]),
      Map([key |-> Str("z"), label |-> Str("x")]),
      Map([key |-> Null]),
      Scal(Str("x")),
      Scal(Null) }

\* the entry sequences of a YAML mapping: its keys are distinct
DictEntries ==
    {e \in SeqsUpTo(DictKeys \X DictValues, MaxLen) :
        \A i, j \in DOMAIN e : i # j => e[i][1] # e[j][1]}

TopScalars == {Scal(Null), Scal(Str("")), Scal(Str("x")), Scal(IntV("0")), Scal(Date)}

Docs ==
    {Blank, Malformed} \cup TopScalars
        \cup {ListDoc(l) : l \in SeqsUpTo(ListItems, MaxLen)}
        \cup {DictDoc(e) : e \in DictEntries}

Responses ==
    {Response("error", 0, Blank), Response("ok", 404, Blank),
     Response("ok", 500, ListDoc(<<R1>>))}
        \cup {Response("ok", 200, d) : d \in Docs}

NormalizeInit ==
    /\ nz_pc = "start"
    /\ nz_resp \in Responses
    /\ nz_out = [raised |-> FALSE, rows |-> <<>>]

NormalizeIdle ==
    /\ nz_pc = "idle"
    /\ nz_resp = Response("error", 0, Blank)
    /\ nz_out = [raised |-> FALSE, rows |-> <<>>]

NormalizeFetch ==
    /\ nz_pc = "start"
    /\ nz_out' = fetch_yaml(nz_resp)
    /\ nz_pc' = "done"
    /\ UNCHANGED <<nz_resp, ddVars, paVars, hvVars>>

NormalizeNext == NormalizeFetch

(***************************************************************************)
(* Properties of fetch_yaml                                                *)
(***************************************************************************)
NormalizeReturned == nz_pc = "done" /\ ~nz_out.raised

\* C6: normalising a top-level mapping yields one record per top-level key
\* in declared order: for a mapping value v the record is v with key set to k
\* only if v has no key field (an inner key is preserved and wins), and for
\* a non-mapping value v the record is {key: k, value: v}.
C6_MappingNormalized ==
    (nz_pc = "done" /\ nz_resp.net = "ok" /\ nz_resp.status = 200
        /\ nz_resp.doc.kind = "dict") =>
        LET entries == nz_resp.doc.val
            rows == nz_out.rows
        IN /\ ~nz_out.raised
           /\ Len(rows) = Len(entries)
           /\ \A i \in DOMAIN entries :
                 LET k == entries[i][1]
                     v == entries[i][2]
                 IN IF v.kind = "map"
                    THEN IF "key" \in DOMAIN v.val
                         THEN rows[i] = v
                         ELSE /\ rows[i].kind = "map"
                              /\ DOMAIN rows[i].val = DOMAIN v.val \cup {"key"}
                              /\ rows[i].val["key"] = Str(k)
                              /\ \A f \in DOMAIN v.val :
                                    rows[i].val[f] = v.val[f]
                    ELSE rows[i] = Map([key |-> Str(k), value |-> v.val])

\* C6 witness: a mapping whose first value has a key field of its own, whose
\* second lacks one and whose third is a scalar has been normalised.
C6_Witness ==
    /\ nz_pc = "done"
    /\ nz_resp.doc = DictDoc(<< <<"b", Map([key |-> Str("z"), label |-> Str("x")])>>,
                                <<"a", Map([label |-> Str("x")])>>,
                                <<"c", Scal(Str("x"))>> >>)
    /\ nz_out.rows = << Map([key |-> Str("z"), label |-> Str("x")]),
                        Map([key |-> Str("a"), label |-> Str("x")]),
                        Map([key |-> Str("c"), value |-> Str("x")]) >>

\* C7: every record the normaliser produces is a mapping: an empty or null
\* document yields the empty sequence; a sequence yields a sequence of the
\* same length and order, mappings unchanged and each bare scalar s replaced
\* by {value: s}; any other top-level scalar yields [{value: scalar}].
C7_RecordsAreMappings ==
    NormalizeReturned =>
        LET doc == nz_resp.doc
            rows == nz_out.rows
        IN /\ \A i \in DOMAIN rows : rows[i].kind = "map"
           /\ (doc.kind = "blank" \/ doc = Scal(Null)) => rows = <<>>
           /\ doc.kind = "list" =>
                 /\ Len(rows) = Len(doc.val)
                 /\ \A i \in DOMAIN doc.val :
                       IF doc.val[i].kind = "map"
                       THEN rows[i] = doc.val[i]
                       ELSE rows[i] = Map([value |-> doc.val[i].val])
           /\ (doc.kind = "scalar" /\ doc # Scal(Null)) =>
                 rows = <<Map([value |-> doc.val])>>

\* C7 witness: a sequence holding a bare scalar between two mappings has
\* been normalised.
C7_Witness ==
    /\ nz_pc = "done"
    /\ nz_resp.doc = ListDoc(<<R1, Bare, I1>>)
    /\ nz_out.rows = <<R1, Wrapped, I1>>

(***************************************************************************)
(* pulse_archive.py: URLs, environment, local files                        *)
(*                                                                         *)
(* A URL is the sequence of its "/"-separated segments after "https://"    *)
(* (parse_excel has already stripped the cell, so the strip() of the URL   *)
(* functions changes nothing).  An environment string is the sequence of   *)
(* its characters.                                                         *)
(***************************************************************************)
\* ^https://github\.com/([^/]+)/([^/]+)/tree/([^/]+)/(.+)$
MatchesTree(url) ==
    /\ Len(url) >= 6
    /\ url[1] = "github.com"
    /\ url[2] # "" /\ url[3] # ""
    /\ url[4] = "tree"
    /\ url[5] # ""
    /\ SubSeq(url, 6, Len(url)) # <<"">>

NoMatch == [ok |-> FALSE, owner |-> "", repo |-> "", path |-> <<>>]

\* hub_path_from_url(tree_url): (owner, repo, path) or None
hub_path_from_url(url) ==
    IF MatchesTree(url)
    THEN [ok |-> TRUE, owner |-> url[2], repo |-> url[3],
          path |-> SubSeq(url, 6, Len(url))]
    ELSE NoMatch

\* to_raw_url(tree_url): the raw URL or None
to_raw_url(url) ==
    IF url = <<>> THEN [ok |-> FALSE, url |-> <<>>]
    ELSE IF MatchesTree(url)
    THEN [ok |-> TRUE,
          url |-> <<"raw.githubusercontent.com", url[2], url[3], url[5]>>
                     \o SubSeq(url, 6, Len(url))]
    ELSE [ok |-> FALSE, url |-> <<>>]

RECURSIVE LStrip(_)
LStrip(s) == IF s # <<>> /\ Head(s) = " " THEN LStrip(Tail(s)) ELSE s

RECURSIVE RStrip(_)
RStrip(s) ==
    IF s # <<>> /\ s[Len(s)] = " " THEN RStrip(SubSeq(s, 1, Len(s) - 1)) ELSE s

\* str.strip()
Strip(s) == RStrip(LStrip(s))

\* dry_run = os.getenv("DRY_RUN", "").strip() == "1"
dry_run(e) == Strip(e.DRY_RUN) = <<"1">>

\* Faulty variant: DRY_RUN is not consulted.
PushEnabled_nodry(e) ==
    /\ Strip(e.HUB_PAT) # <<>>
    /\ Strip(e.HUB_OWNER) # <<>>
    /\ Strip(e.HUB_REPO) # <<>>

\* not dry_run and hub_pat and hub_owner and hub_repo
PushEnabled(e) ==
    /\ ~dry_run(e)
    /\ Strip(e.HUB_PAT) # <<>>
    /\ Strip(e.HUB_OWNER) # <<>>
    /\ Strip(e.HUB_REPO) # <<>>

\* os.path.dirname(path)
DirName(path) == SubSeq(path, 1, Len(path) - 1)

\* the content yaml.safe_dump(records, sort_keys=False) leaves in the file
YamlDump(records) == [exists |-> TRUE, rows |-> records]

Absent == [exists |-> FALSE, rows |-> <<>>]

\* Faulty variant: the file is written only when its content would change.
write_yaml_local_ifchanged(fs, path, records) ==
    IF DirName(path) = <<>>
    THEN [raised |-> TRUE, files |-> fs.files, writes |-> fs.writes]
    ELSE IF fs.files[path] = YamlDump(records)
    THEN [raised |-> FALSE, files |-> fs.files, writes |-> fs.writes]
    ELSE [raised |-> FALSE,
          files |-> [fs.files EXCEPT ![path] = YamlDump(records)],
          writes |-> [fs.writes EXCEPT ![path] = @ + 1]]

\* write_yaml_local(path, records) on the file system fs = [files, writes].
\* os.makedirs("") raises FileNotFoundError when the path has no directory
\* part; otherwise the file is opened for writing and dumped into.
write_yaml_local(fs, path, records) ==
    IF DirName(path) = <<>>
    THEN [raised |-> TRUE, files |-> fs.files, writes |-> fs.writes]
    ELSE [raised |-> FALSE,
          files |-> [fs.files EXCEPT ![path] = YamlDump(records)],
          writes |-> [fs.writes EXCEPT ![path] = @ + 1]]

(***************************************************************************)
(* pulse_archive.py: the inputs of main                                    *)
(***************************************************************************)
HubTags == <<"github.com", "zb", "hub", "tree", "main", "seeds", "tags.yml">>

HubGlossary == <<"github.com", "zb", "hub", "tree", "main", "seeds", "glossary.yml">>

HubTopLevel == <<"github.com", "zb", "hub", "tree", "main", "tags.yml">>

HubBlob == <<"github.com", "zb", "hub", "blob", "main", "seeds", "tags.yml">>

HubUrls == {HubTags, HubGlossary, HubTopLevel, HubBlob}

SrcTree == <<"github.com", "zb", "launch", "tree", "main", "seeds", "tags.yml">>

SrcRaw == <<"raw.githubusercontent.com", "zb", "launch", "main", "seeds", "tags.yml">>

SrcUrls == {SrcTree, SrcRaw}

Paths == {hub_path_from_url(h).path : h \in {u \in HubUrls : MatchesTree(u)}}

\* what a source URL may answer with
PulseResponses ==
    { Response("error", 0, Blank),
      Response("ok", 404, Blank),
      Response("ok", 200, Malformed),
      Response("ok", 200, ListDoc(<<R1, I1>>)),
      Response("ok", 200, DictDoc(<< <<"a", Map([label |-> Str("y")])>> >>)),
      Response("ok", 200, ListDoc(<<Dated>>)) }

Environment(d, p, o, r) ==
    [DRY_RUN |-> d, HUB_PAT |-> p, HUB_OWNER |-> o, HUB_REPO |-> r]

Envs ==
    { Environment(<<>>, <<"t">>, <<"z">>, <<"h">>),
      Environment(<<"0">>, <<"t">>, <<"z">>, <<" ", "h">>),
      Environment(<<"1">>, <<"t">>, <<"z">>, <<"h">>),
      Environment(<<" ", "1", " ">>, <<"t">>, <<"z">>, <<"h">>),
      Environment(<<>>, <<>>, <<"z">>, <<"h">>),
      Environment(<<>>, <<"t">>, <<" ">>, <<"h">>),
      Environment(<<>>, <<"t">>, <<"z">>, <<>>) }

(***************************************************************************)
(* pulse_archive.py: main                                                  *)
(*                                                                         *)
(* The columns of the Excel plan are read one at a time: nT is the number  *)
(* of columns, the hub URL of a column and the number of its source cells  *)
(* are drawn when the loop reaches it, each source cell when it is         *)
(* fetched.  Column headers are distinct (pandas renames duplicates).      *)
(*                                                                         *)
(* hist is a history variable; no action's guard or program update reads   *)
(* it, except that hubs already used are not drawn again:                  *)
(*   hubsSeen    hub URLs of the columns processed so far in this run      *)
(*   invalidT    targets skipped for an invalid hub URL                    *)
(*   fetches     number of HTTP GETs made for the current target           *)
(*   okRows      records of the sources of the current target whose fetch  *)
(*               succeeded, in the order the sources are declared          *)
(*   failed      some source fetch of this run failed                      *)
(*   written     targets whose local file was written in this run          *)
(*   attempted   targets for which a push was attempted in this run        *)
(*   pushFailed  targets whose push raised                                 *)
(*   lastWrite   the call of write_yaml_local of the current target, from  *)
(*               its return to the end of the target's iteration           *)
(***************************************************************************)
NoWrite ==
    [valid |-> FALSE, path |-> <<>>, priorEqual |-> FALSE, before |-> 0,
     rows |-> <<>>, from |-> <<>>]

HistStart ==
    [hubsSeen |-> {}, invalidT |-> {}, fetches |-> 0, okRows |-> <<>>,
     failed |-> FALSE, written |-> {}, attempted |-> {}, pushFailed |-> {},
     lastWrite |-> NoWrite]

PulseInit ==
    /\ env \in Envs
    /\ nT \in 0..MaxTargets
    /\ run = 1
    /\ pc = "start"
    /\ rc = -1
    /\ ti = 0
    /\ hub = <<>>
    /\ nS = 0
    /\ si = 0
    /\ merged = <<>>
    /\ files = [p \in Paths |-> Absent]
    /\ writes = [p \in Paths |-> 0]
    /\ pushes = <<>>
    /\ hist = HistStart

PulseIdle ==
    /\ env = Environment(<<>>, <<>>, <<>>, <<>>)
    /\ nT = 0
    /\ run = 0
    /\ pc = "idle"
    /\ rc = -1
    /\ ti = 0
    /\ hub = <<>>
    /\ nS = 0
    /\ si = 0
    /\ merged = <<>>
    /\ files = [p \in Paths |-> Absent]
    /\ writes = [p \in Paths |-> 0]
    /\ pushes = <<>>
    /\ hist = HistStart

\* main, lines 208-223: an empty plan (like a missing Excel file) raises
\* SystemExit, which ends the process with exit status 1
MainStart ==
    /\ pc = "start"
    /\ IF nT = 0
       THEN /\ pc' = "fatal"
            /\ rc' = 1
            /\ ti' = ti
       ELSE /\ pc' = "target"
            /\ rc' = rc
            /\ ti' = 1
    /\ pushes' = <<>>
    /\ UNCHANGED <<env, nT, run, hub, nS, si, merged, files, writes, hist>>
    /\ UNCHANGED <<ddVars, nzVars, hvVars>>

\* main, lines 224-238: the head of the loop over the targets
BeginTarget ==
    /\ pc = "target"
    /\ ti <= nT
    /\ \E h \in HubUrls \ hist.hubsSeen :
          /\ hub' = h
          /\ IF ~hub_path_from_url(h).ok
             THEN /\ ti' = ti + 1
                  /\ pc' = "target"
                  /\ UNCHANGED <<nS, si, merged>>
                  /\ hist' = [hist EXCEPT !.hubsSeen = @ \cup {h},
                                          !.invalidT = @ \cup {ti}]
             ELSE /\ \E n \in 0..MaxSources : nS' = n
                  /\ si' = 1
                  /\ merged' = <<>>
                  /\ pc' = "fetch"
                  /\ ti' = ti
                  /\ hist' = [hist EXCEPT !.hubsSeen = @ \cup {h},
                                          !.fetches = 0,
                                          !.okRows = <<>>]
    /\ UNCHANGED <<env, nT, run, rc, files, writes, pushes>>
    /\ UNCHANGED <<ddVars, nzVars, hvVars>>

\* main, lines 239-250: one iteration of the loop over the source cells
FetchSource ==
    /\ pc = "fetch"
    /\ si <= nS
    /\ \E src \in SrcUrls :
          IF ~to_raw_url(src).ok
          THEN UNCHANGED <<merged, hist>>
          ELSE \E resp \in PulseResponses :
                  LET r == fetch_yaml(resp) IN
                  IF r.raised
                  THEN /\ merged' = merged
                       /\ hist' = [hist EXCEPT !.fetches = @ + 1,
                                               !.failed = TRUE]
                  ELSE /\ merged' = merged \o r.rows
                       /\ hist' = [hist EXCEPT !.fetches = @ + 1,
                                               !.okRows = @ \o Normalize(resp.doc)]
    /\ si' = si + 1
    /\ UNCHANGED <<env, nT, run, pc, rc, ti, hub, nS, files, writes, pushes>>
    /\ UNCHANGED <<ddVars, nzVars, hvVars>>

\* main, lines 252-257: de-duplicate and write the local file.  A TypeError
\* of dedupe_records or an OSError of write_yaml_local is not caught in main:
\* the run ends with exit status 1.
MergeWrite ==
    /\ pc = "fetch"
    /\ si > nS
    /\ LET d == dedupe_records(merged)
           path == hub_path_from_url(hub).path
           w == write_yaml_local([files |-> files, writes |-> writes],
                                 path, d.out)
       IN IF d.raised \/ w.raised
          THEN /\ pc' = "fatal"
               /\ rc' = 1
               /\ UNCHANGED <<merged, files, writes, hist>>
          ELSE /\ pc' = "push"
               /\ rc' = rc
               /\ merged' = d.out
               /\ files' = w.files
               /\ writes' = w.writes
               /\ hist' = [hist EXCEPT
                             !.written = @ \cup {ti},
                             !.lastWrite =
                                [valid |-> TRUE, path |-> path,
                                 priorEqual |-> files[path] = YamlDump(d.out),
                                 before |-> writes[path],
                                 rows |-> d.out,
                                 from |-> hist.okRows]]
    /\ UNCHANGED <<env, nT, run, ti, hub, nS, si, pushes>>
    /\ UNCHANGED <<ddVars, nzVars, hvVars>>

\* main, line 260: the push is not enabled
PushSkip ==
    /\ pc = "push"
    /\ ~PushEnabled(env)
    /\ hist' = [hist EXCEPT !.lastWrite = NoWrite]
    /\ ti' = ti + 1
    /\ pc' = "target"
    /\ UNCHANGED <<env, nT, run, rc, hub, nS, si, merged, files, writes,
                   pushes>>
    /\ UNCHANGED <<ddVars, nzVars, hvVars>>

\* main, lines 260-266: gh_put_file returns
PushOk ==
    /\ pc = "push"
    /\ PushEnabled(env)
    /\ pushes' = Append(pushes, <<Strip(env.HUB_REPO),
                                  hub_path_from_url(hub).path>>)
    /\ hist' = [hist EXCEPT !.attempted = @ \cup {ti},
                            !.lastWrite = NoWrite]
    /\ ti' = ti + 1
    /\ pc' = "target"
    /\ UNCHANGED <<env, nT, run, rc, hub, nS, si, merged, files, writes>>
    /\ UNCHANGED <<ddVars, nzVars, hvVars>>

\* main, lines 260-268: gh_put_file (or reading the file back) raises; the
\* exception is logged
PushFail ==
    /\ pc = "push"
    /\ PushEnabled(env)
    /\ hist' = [hist EXCEPT !.attempted = @ \cup {ti},
                            !.pushFailed = @ \cup {ti},
                            !.lastWrite = NoWrite]
    /\ ti' = ti + 1
    /\ pc' = "target"
    /\ UNCHANGED <<env, nT, run, rc, hub, nS, si, merged, files, writes,
                   pushes>>
    /\ UNCHANGED <<ddVars, nzVars, hvVars>>

\* main, lines 270-275: the loop over the targets is over
Finish ==
    /\ pc = "target"
    /\ ti > nT
    /\ pc' = "done"
    /\ rc' = 0
    /\ UNCHANGED <<env, nT, run, ti, hub, nS, si, merged, files, writes,
                   pushes, hist>>
    /\ UNCHANGED <<ddVars, nzVars, hvVars>>

\* the script is invoked again, with the same configuration, on the files
\* the previous run left
Rerun ==
    /\ pc \in {"done", "fatal"}
    /\ run < MaxRuns
    /\ run' = run + 1
    /\ pc' = "start"
    /\ rc' = -1
    /\ ti' = 0
    /\ hub' = <<>>
    /\ nS' = 0
    /\ si' = 0
    /\ merged' = <<>>
    /\ pushes' = <<>>
    /\ hist' = HistStart
    /\ UNCHANGED <<env, nT, files, writes>>
    /\ UNCHANGED <<ddVars, nzVars, hvVars>>

PulseNext ==
    \/ MainStart
    \/ BeginTarget
    \/ FetchSource
    \/ MergeWrite
    \/ PushSkip
    \/ PushOk
    \/ PushFail
    \/ Finish

RerunNext == PulseNext \/ Rerun

\* the environments of the rerun scenario: pushing, and DRY_RUN=1
RerunEnvs ==
    { Environment(<<>>, <<"t">>, <<"z">>, <<"h">>),
      Environment(<<"1">>, <<"t">>, <<"z">>, <<"h">>) }

\* the rerun scenario: a plan of one column, run again and again
RerunInit == PulseInit /\ env \in RerunEnvs /\ nT = 1

(***************************************************************************)
(* pull_seeds_to_hub.py                                                    *)
(*                                                                         *)
(* An HTTP answer is [net, status, text]; net = "error" when requests.get  *)
(* raises (nothing in the script catches it).  A file is [exists, text].   *)
(***************************************************************************)
\* seeds_to_pull
seeds_to_pull == <<"glossary.yml", "tags.yml">>

NoText == [some |-> FALSE, text |-> ""]

\* fetch_raw(owner, repo, path): r.text when the status is 200, else None
fetch_raw(ans) ==
    IF ans.status = 200 THEN [some |-> TRUE, text |-> ans.text] ELSE NoText

\* Faulty variant: only None is skipped, an empty text is written.
HarvestStore_emptyok(fs, seed, text) ==
    IF ~text.some THEN fs
    ELSE [fs EXCEPT ![seed] = [exists |-> TRUE, text |-> text.text]]

\* lines 44-50: "if not text: continue", else the file is overwritten
HarvestStore(fs, seed, text) ==
    IF ~text.some \/ text.text = "" THEN fs
    ELSE [fs EXCEPT ![seed] = [exists |-> TRUE, text |-> text.text]]

SeedNames == {seeds_to_pull[i] : i \in DOMAIN seeds_to_pull}

HarvestAnswers ==
    { [net |-> "error", status |-> 0, text |-> ""],
      [net |-> "ok", status |-> 404, text |-> "404: Not Found"],
      [net |-> "ok", status |-> 200, text |-> ""],
      [net |-> "ok", status |-> 200, text |-> "alpha"],
      [net |-> "ok", status |-> 200, text |-> "beta"] }

HarvestInit ==
    /\ hv_pc = "loop"
    /\ hv_nM \in 0..MaxModules
    /\ hv_mi = 1
    /\ hv_sd = 1
    /\ hv_files \in [SeedNames -> {[exists |-> FALSE, text |-> ""],
                                   [exists |-> TRUE, text |-> "old"]}]
    /\ hv_before = hv_files
    /\ hv_log = <<>>

HarvestIdle ==
    /\ hv_pc = "idle"
    /\ hv_nM = 0
    /\ hv_mi = 0
    /\ hv_sd = 0
    /\ hv_files = [n \in SeedNames |-> [exists |-> FALSE, text |-> ""]]
    /\ hv_before = hv_files
    /\ hv_log = <<>>

\* main, lines 39-50: one iteration of the inner loop, for module hv_mi and
\* seed hv_sd
HarvestPull ==
    /\ hv_pc = "loop"
    /\ hv_mi <= hv_nM
    /\ \E ans \in HarvestAnswers :
          LET seed == seeds_to_pull[hv_sd] IN
          /\ hv_log' = Append(hv_log, [m |-> hv_mi, seed |-> seed, ans |-> ans])
          /\ IF ans.net = "error"
             THEN /\ hv_pc' = "fatal"
                  /\ UNCHANGED <<hv_mi, hv_sd, hv_files>>
             ELSE /\ hv_files' = HarvestStore(hv_files, seed, fetch_raw(ans))
                  /\ hv_pc' = hv_pc
                  /\ IF hv_sd < Len(seeds_to_pull)
                     THEN hv_sd' = hv_sd + 1 /\ hv_mi' = hv_mi
                     ELSE hv_sd' = 1 /\ hv_mi' = hv_mi + 1
    /\ UNCHANGED <<hv_nM, hv_before>>
    /\ UNCHANGED <<ddVars, nzVars, paVars>>

\* main, lines 52-53
HarvestDone ==
    /\ hv_pc = "loop"
    /\ hv_mi > hv_nM
    /\ hv_pc' = "done"
    /\ UNCHANGED <<hv_nM, hv_mi, hv_sd, hv_files, hv_before, hv_log>>
    /\ UNCHANGED <<ddVars, nzVars, paVars>>

HarvestNext == HarvestPull \/ HarvestDone

(***************************************************************************)
(* Properties of dedupe_records                                            *)
(***************************************************************************)
\* s is a subsequence of t
IsSubseq(s, t) ==
    \E f \in [DOMAIN s -> DOMAIN t] :
        /\ \A a, b \in DOMAIN s : a < b => f[a] < f[b]
        /\ \A a \in DOMAIN s : s[a] = t[f[a]]

\* the record the loop works on: the item, or {"value": item} for a non-dict
AsRecord(item) == IF IsDict(item) THEN item ELSE WrapValue(item)

KeyOf(rec) == rec.val["key"].v

\* the first position of the input carrying the non-empty string key k
FirstWithKey(input, k) ==
    CHOOSE i \in DOMAIN input :
        /\ HasKey(input[i]) /\ KeyOf(input[i]) = k
        /\ \A j \in DOMAIN input :
              (HasKey(input[j]) /\ KeyOf(input[j]) = k) => i <= j

DedupeReturned == dd_pc # "start" /\ ~dd_out.raised

\* C1: dedupe_records is first-write-wins and order-sensitive.  Whenever it
\* returns for an input of records, the output is a subsequence of the input
\* that holds, for every non-empty string key of the input, exactly one
\* record with that key, namely the first input record carrying it; so
\* dedupe([r1, r2]) = [r1] and dedupe([r2, r1]) = [r2] for r1, r2 sharing
\* key "a" with different content.
C1_FirstWriteWins ==
    (DedupeReturned /\ \A i \in DOMAIN dd_in : IsDict(dd_in[i])) =>
        /\ IsSubseq(dd_out.out, dd_in)
        /\ \A i \in DOMAIN dd_in :
              HasKey(dd_in[i]) =>
                 LET k == KeyOf(dd_in[i])
                     hits == {j \in DOMAIN dd_out.out :
                                 HasKey(dd_out.out[j]) /\ KeyOf(dd_out.out[j]) = k}
                 IN /\ Cardinality(hits) = 1
                    /\ \A j \in hits :
                          dd_out.out[j] = dd_in[FirstWithKey(dd_in, k)]
        /\ (dd_in = <<R1, R2>> => dd_out.out = <<R1>>)
        /\ (dd_in = <<R2, R1>> => dd_out.out = <<R2>>)

\* C1 witness: two records sharing key "a" with different content, a record
\* with another key between them, have been de-duplicated.
C1_Witness ==
    /\ dd_pc = "once"
    /\ dd_in = <<R2, R3, R1>>
    /\ dd_out.out = <<R2, R3>>

\* C2: de-duplication is idempotent: dedupe(dedupe(X)) = dedupe(X) for every
\* input X of keyed, keyless or mixed items on which dedupe returns.
C2_Idempotent ==
    dd_pc = "twice" => (~dd_out2.raised /\ dd_out2.out = dd_out.out)

\* C2 witness: a mixed input (a bare scalar, a keyed record and a keyless
\* record equal to the wrapped scalar) that lost a duplicate has been
\* de-duplicated twice.
C2_Witness ==
    /\ dd_pc = "twice"
    /\ dd_in = <<Bare, R1, Wrapped>>
    /\ dd_out.out = <<Wrapped, R1>>

\* C3 as stated: the id field is a canonical key, so of two records without
\* a key that share a non-empty id at most one is kept.
C3_IdIsCanonicalKey ==
    DedupeReturned =>
        \A i, j \in DOMAIN dd_in :
            ( /\ i < j
              /\ IsDict(dd_in[i]) /\ IsDict(dd_in[j])
              /\ "key" \notin DOMAIN dd_in[i].val
              /\ "key" \notin DOMAIN dd_in[j].val
              /\ "id" \in DOMAIN dd_in[i].val
              /\ "id" \in DOMAIN dd_in[j].val
              /\ dd_in[i].val["id"] = dd_in[j].val["id"]
              /\ dd_in[i] # dd_in[j] )
            => ~(\E a, b \in DOMAIN dd_out.out :
                    dd_out.out[a] = dd_in[i] /\ dd_out.out[b] = dd_in[j])

\* C3 amended: the canonical key is the key field alone.  Every item without
\* a non-empty string key (whatever its id) is de-duplicated by full content:
\* it appears in the output exactly once, so two such records that share an
\* id and differ elsewhere are both kept.
C3_KeyOnlyCanonical ==
    DedupeReturned =>
        /\ \A i \in DOMAIN dd_in :
              ~HasKey(AsRecord(dd_in[i])) =>
                 Cardinality({j \in DOMAIN dd_out.out :
                                 dd_out.out[j] = AsRecord(dd_in[i])}) = 1
        /\ \A j \in DOMAIN dd_out.out :
              \E i \in DOMAIN dd_in : dd_out.out[j] = AsRecord(dd_in[i])

\* C3 witness: two records without a key that share id "a" and differ in
\* their label are both in the output.
C3_Witness ==
    /\ dd_pc = "once"
    /\ dd_in = <<I1, I2>>
    /\ dd_out.out = <<I1, I2>>

(***************************************************************************)
(* Properties of pulse_archive.main                                        *)
(***************************************************************************)
Ended == pc \in {"done", "fatal"}

C5_FailedFetchIsolated ==
    /\ pc = "fetch" => hist.fetches <= si - 1
    /\ hist.lastWrite.valid =>
          /\ hist.lastWrite.rows = dedupe_records(hist.lastWrite.from).out
          /\ files[hist.lastWrite.path] = YamlDump(hist.lastWrite.rows)
    /\ (Ended /\ hist.failed) =>
          /\ rc = 0
          /\ ti = nT + 1
          /\ hist.written = (1..nT) \ hist.invalidT

\* C8: a push is attempted only when DRY_RUN is not "1" and HUB_PAT,
\* HUB_OWNER and HUB_REPO are all non-empty, and only for a target whose
\* local file was written before in the same iteration; with DRY_RUN = "1"
\* no push is attempted; a target with an invalid hub URL is neither written
\* nor pushed.
C8_PushOnlyWhenEnabledAfterWrite ==
    /\ \A t \in hist.attempted :
          /\ env.DRY_RUN # <<"1">>
          /\ env.HUB_PAT # <<>>
          /\ env.HUB_OWNER # <<>>
          /\ env.HUB_REPO # <<>>
          /\ t \in hist.written
          /\ t < ti
    /\ env.DRY_RUN = <<"1">> => (hist.attempted = {} /\ pushes = <<>>)
    /\ Len(pushes) <= Cardinality(hist.attempted)
    /\ \A t \in hist.invalidT :
          t \notin hist.written /\ t \notin hist.attempted
    /\ pc = "push" => (ti \in hist.written /\ files[hist.lastWrite.path].exists)

\* C8 witness: a run has ended in which a push was attempted for a written
\* target and another target was skipped for its invalid hub URL.
C8_Witness ==
    /\ pc = "done"
    /\ hist.attempted # {}
    /\ hist.invalidT # {}

\* C9: a push failure for one target is isolated: later targets are still
\* processed, the local write stays, the target is not added to pushes,
\* pushes holds exactly the targets whose push returned, and main returns 0.
C9_PushFailureIsolated ==
    /\ \A t \in hist.pushFailed : t \in hist.written
    /\ Len(pushes) = Cardinality(hist.attempted \ hist.pushFailed)
    /\ (Ended /\ hist.pushFailed # {}) => (rc = 0 /\ ti = nT + 1)

(***************************************************************************)
(* Properties of pull_seeds_to_hub.main                                    *)
(***************************************************************************)
\* positions of the log at which the fetch of seed returned non-empty text
\* with status 200
Pulled(seed) ==
    {i \in DOMAIN hv_log :
        /\ hv_log[i].seed = seed
        /\ hv_log[i].ans.net = "ok"
        /\ hv_log[i].ans.status = 200
        /\ hv_log[i].ans.text # ""}

LastOf(S) == CHOOSE i \in S : \A j \in S : j <= i

\* C10: modules are processed strictly in registry order and each seed file
\* is last-writer-wins: the file holds the text of the last module, in
\* registry order, whose fetch returned non-empty text with status 200; a
\* failed or empty fetch leaves the file as it was, and a file no module
\* pulled is neither created nor modified.
C10_LastWriterWins ==
    /\ \A i, j \in DOMAIN hv_log :
          i < j => \/ hv_log[i].m < hv_log[j].m
                   \/ /\ hv_log[i].m = hv_log[j].m
                      /\ hv_log[i].seed # hv_log[j].seed
    /\ \A seed \in SeedNames :
          IF Pulled(seed) = {}
          THEN hv_files[seed] = hv_before[seed]
          ELSE /\ hv_files[seed].exists
               /\ hv_files[seed].text = hv_log[LastOf(Pulled(seed))].ans.text
               /\ \A i \in Pulled(seed) :
                     hv_log[i].m <= hv_log[LastOf(Pulled(seed))].m

\* C10 witness: the harvest has ended; two modules answered for tags.yml
\* with different texts and the file holds the second; the first module
\* answered for glossary.yml, the second did not (404), and the file holds
\* the first module's text.
C10_Witness ==
    /\ hv_pc = "done"
    /\ Len(hv_log) = 4
    /\ hv_log[2].ans.text = "alpha"
    /\ hv_log[4].ans.text = "beta"
    /\ hv_files["tags.yml"].text = "beta"
    /\ hv_log[1].ans.text = "alpha"
    /\ hv_log[3].ans.status = 404
    /\ hv_files["glossary.yml"].text = "alpha"

(***************************************************************************)
(* Specifications                                                          *)
(***************************************************************************)
InitDedupe == DedupeInit /\ NormalizeIdle /\ PulseIdle /\ HarvestIdle

InitNormalize == NormalizeInit /\ DedupeIdle /\ PulseIdle /\ HarvestIdle

InitPulse == PulseInit /\ DedupeIdle /\ NormalizeIdle /\ HarvestIdle

InitRerun == RerunInit /\ DedupeIdle /\ NormalizeIdle /\ HarvestIdle

InitHarvest == HarvestInit /\ DedupeIdle /\ NormalizeIdle /\ PulseIdle

\* dedupe_records applied to an input, then to its own output
SpecDedupe == InitDedupe /\ [][DedupeNext]_vars

\* fetch_yaml applied to a response
SpecNormalize == InitNormalize /\ [][NormalizeNext]_vars

\* one run of pulse_archive.py
SpecPulse == InitPulse /\ [][PulseNext]_vars

\* pulse_archive.py run again and again on the files it left
SpecRerun == InitRerun /\ [][RerunNext]_vars

\* one run of pull_seeds_to_hub.py
SpecHarvest == InitHarvest /\ [][HarvestNext]_vars

====
